---- MODULE Spec2Model ----
(***************************************************************************)
(* The navigation library facade (NavigationLibrary) and the waypoint      *)
(* model (WaypointModel, strict and legacy variants) of openscope.         *)
(*                                                                         *)
(* JavaScript strings are sequences of one-character strings, so that      *)
(* indexOf, replace, split, parseInt and the default sort order are        *)
(* computed and not assumed.  JavaScript objects used as keyed collections *)
(* are sequences of [key, value] entries in insertion order.  null,        *)
(* undefined and booleans returned to a caller are tagged records.         *)
(***************************************************************************)
EXTENDS Integers, Sequences, FiniteSets, TLC

VARIABLES
    referencePosition,      \* NavigationLibrary._referencePosition
    fixItems,               \* FixCollection._items
    airwayCollection,       \* NavigationLibrary._airwayCollection
    procedureCollection,    \* NavigationLibrary._procedureCollection
    console,                \* console.warn messages of the most recent call
    history,                \* what has been called since the last reset()
    wp,                     \* the WaypointModel instance under observation
    wpHistory,              \* what that instance has been through
    last                    \* the most recent call: what, with what, outcome

vars == <<referencePosition, fixItems, airwayCollection, procedureCollection,
          console, history, wp, wpHistory, last>>

libVars == <<referencePosition, fixItems, airwayCollection, procedureCollection>>

-----------------------------------------------------------------------------
(* JavaScript values *)

Null == [t |-> "null"]

Undefined == [t |-> "undefined"]

Bool(b) == [t |-> "boolean", v |-> b]

-----------------------------------------------------------------------------
(* Strings *)

\* UTF-16 code units of the characters that occur in tokens and names
CharCode ==
    [c \in {"#", "+", "-", "0", "1", "2", "3", "4", "5", "6", "7", "8", "9",
            "@", "A", "B", "C", "D", "G", "J", "K", "L", "P", "S", "V", "X",
            "^", "_", "|"} |->
        CASE c = "#" -> 35 [] c = "+" -> 43 [] c = "-" -> 45
          [] c = "0" -> 48 [] c = "1" -> 49 [] c = "2" -> 50 [] c = "3" -> 51
          [] c = "4" -> 52 [] c = "5" -> 53 [] c = "6" -> 54 [] c = "7" -> 55
          [] c = "8" -> 56 [] c = "9" -> 57 [] c = "@" -> 64 [] c = "A" -> 65
          [] c = "B" -> 66 [] c = "C" -> 67 [] c = "D" -> 68 [] c = "G" -> 71
          [] c = "J" -> 74 [] c = "K" -> 75 [] c = "L" -> 76 [] c = "P" -> 80
          [] c = "S" -> 83 [] c = "V" -> 86 [] c = "X" -> 88 [] c = "^" -> 94
          [] c = "_" -> 95 [] OTHER -> 124]

\* a < b for two strings, as the default comparator of Array.prototype.sort
\* orders them: by code unit, a proper prefix first
RECURSIVE StringLess(_, _)
StringLess(a, b) ==
    IF b = <<>> THEN FALSE
    ELSE IF a = <<>> THEN TRUE
    ELSE IF CharCode[Head(a)] # CharCode[Head(b)]
         THEN CharCode[Head(a)] < CharCode[Head(b)]
         ELSE StringLess(Tail(a), Tail(b))

\* Array.prototype.sort() with no comparator, on an array of strings
RECURSIVE sort(_)
sort(list) ==
    IF list = <<>> THEN <<>>
    ELSE LET i == CHOOSE k \in 1..Len(list) :
                    \A j \in 1..Len(list) :
                        /\ ~StringLess(list[j], list[k])
                        /\ (list[j] = list[k] => k <= j)
             rest == [j \in 1..(Len(list) - 1) |->
                        IF j < i THEN list[j] ELSE list[j + 1]]
         IN  <<list[i]>> \o sort(rest)

\* lodash uniq: the first occurrence of each value, in order
RECURSIVE uniq(_)
uniq(list) ==
    IF list = <<>> THEN <<>>
    ELSE LET init == uniq(SubSeq(list, 1, Len(list) - 1))
             x == list[Len(list)]
         IN  IF \E j \in 1..Len(init) : init[j] = x THEN init
             ELSE Append(init, x)

\* lodash without(list, value)
without(list, value) == SelectSeq(list, LAMBDA x : x # value)

\* lodash flatten: one level
RECURSIVE flatten(_)
flatten(lists) ==
    IF lists = <<>> THEN <<>> ELSE Head(lists) \o flatten(Tail(lists))

\* Array.prototype.filter
filter(list, Test(_)) == SelectSeq(list, Test)

\* String.prototype.indexOf(character): zero-based, -1 when absent
indexOf(string, character) ==
    IF \E i \in 1..Len(string) : string[i] = character
    THEN (CHOOSE i \in 1..Len(string) :
            /\ string[i] = character
            /\ \A j \in 1..(i - 1) : string[j] # character) - 1
    ELSE -1

\* String.prototype.replace(character, ''): drops the first occurrence only
replace(string, character) ==
    LET at == indexOf(string, character) + 1
    IN  IF at = 0 THEN string
        ELSE SubSeq(string, 1, at - 1) \o SubSeq(string, at + 1, Len(string))

\* String.prototype.substr(1)
substr1(string) == SubSeq(string, 2, Len(string))

\* String.prototype.split(separator), separator one character
RECURSIVE split(_, _)
split(string, separator) ==
    LET at == indexOf(string, separator) + 1
    IN  IF at = 0 THEN <<string>>
        ELSE <<SubSeq(string, 1, at - 1)>>
                \o split(SubSeq(string, at + 1, Len(string)), separator)

\* Array.prototype.join(separator)
RECURSIVE join(_, _)
join(strings, separator) ==
    IF strings = <<>> THEN <<>>
    ELSE IF Len(strings) = 1 THEN strings[1]
    ELSE strings[1] \o separator \o join(Tail(strings), separator)

Digits == {"0", "1", "2", "3", "4", "5", "6", "7", "8", "9"}

\* the value of a decimal digit
DigitValue(character) == CharCode[character] - CharCode["0"]

\* Number not-a-number, kept apart from every number the model computes
NaN == -(2 ^ 30)

\* the longest prefix of decimal digits of a string
RECURSIVE DigitPrefix(_)
DigitPrefix(string) ==
    IF string = <<>> \/ Head(string) \notin Digits THEN <<>>
    ELSE <<Head(string)>> \o DigitPrefix(Tail(string))

\* the number a string of decimal digits denotes
RECURSIVE DecimalValue(_)
DecimalValue(digits) ==
    IF digits = <<>> THEN 0
    ELSE 10 * DecimalValue(SubSeq(digits, 1, Len(digits) - 1))
            + DigitValue(digits[Len(digits)])

\* parseInt(string, 10): optional sign, then as many digits as there are;
\* NaN when there is none
parseInt(string) ==
    LET signed == string # <<>> /\ Head(string) \in {"+", "-"}
        body == IF signed THEN Tail(string) ELSE string
        digits == DigitPrefix(body)
    IN  IF digits = <<>> THEN NaN
        ELSE IF signed /\ Head(string) = "-" THEN 0 - DecimalValue(digits)
        ELSE DecimalValue(digits)

\* a * b in JavaScript arithmetic
Times(a, b) == IF a = NaN \/ b = NaN THEN NaN ELSE a * b

\* Number.prototype.toString() of a non-negative integer
RECURSIVE NumberToString(_)
NumberToString(n) ==
    LET digit == CHOOSE c \in Digits : DigitValue(c) = n % 10
    IN  IF n < 10 THEN <<digit>>
        ELSE NumberToString(n \div 10) \o <<digit>>

-----------------------------------------------------------------------------
(* Keyed collections: a JavaScript object as entries in insertion order *)

constructor == <<"c", "o", "n", "s", "t", "r", "u", "c", "t", "o", "r">>

\* the property names every object literal {} inherits from Object.prototype
ObjectPrototype ==
    {constructor,
     <<"t", "o", "S", "t", "r", "i", "n", "g">>,
     <<"t", "o", "L", "o", "c", "a", "l", "e", "S", "t", "r", "i", "n", "g">>,
     <<"v", "a", "l", "u", "e", "O", "f">>,
     <<"h", "a", "s", "O", "w", "n", "P", "r", "o", "p", "e", "r", "t", "y">>,
     <<"i", "s", "P", "r", "o", "t", "o", "t", "y", "p", "e", "O", "f">>,
     <<"p", "r", "o", "p", "e", "r", "t", "y", "I", "s", "E", "n", "u", "m",
       "e", "r", "a", "b", "l", "e">>,
     <<"_", "_", "p", "r", "o", "t", "o", "_", "_">>,
     <<"_", "_", "d", "e", "f", "i", "n", "e", "G", "e", "t", "t", "e", "r",
       "_", "_">>,
     <<"_", "_", "d", "e", "f", "i", "n", "e", "S", "e", "t", "t", "e", "r",
       "_", "_">>,
     <<"_", "_", "l", "o", "o", "k", "u", "p", "G", "e", "t", "t", "e", "r",
       "_", "_">>,
     <<"_", "_", "l", "o", "o", "k", "u", "p", "S", "e", "t", "t", "e", "r",
       "_", "_">>}

\* the object has an entry of its own under the key
Own(key, object) == \E i \in 1..Len(object) : object[i].key = key

\* the member of Object.prototype an object literal inherits under a name
Inherited(key) == [t |-> "Object.prototype", name |-> key]

\* key in object: an entry of the object itself, or a name found on its
\* prototype chain
In(key, object) == Own(key, object) \/ key \in ObjectPrototype

\* object[key]: the object's own entry, else the inherited member, else
\* undefined
Get(object, key) ==
    IF Own(key, object)
    THEN object[CHOOSE i \in 1..Len(object) : object[i].key = key].value
    ELSE IF key \in ObjectPrototype THEN Inherited(key)
    ELSE Undefined

\* object[key] = value, for a key that `in` did not find
Put(object, key, value) ==
    IF Own(key, object)
    THEN [i \in 1..Len(object) |->
            IF object[i].key = key THEN [key |-> key, value |-> value]
            ELSE object[i]]
    ELSE Append(object, [key |-> key, value |-> value])

\* lodash map(object, f) visits the values in insertion order
Values(object) == [i \in 1..Len(object) |-> object[i].value]

Keys(object) == {object[i].key : i \in 1..Len(object)}

-----------------------------------------------------------------------------
(* Collaborators of the navigation library *)

\* degreesToRadians(degrees): the angle, kept as the number of degrees it
\* was converted from
degreesToRadians(degrees) == [t |-> "radians", degrees |-> degrees]

\* new StaticPositionModel(coordinates, reference, magneticNorth)
StaticPositionModel(coordinates, reference, magneticNorth) ==
    [t |-> "StaticPositionModel", coordinates |-> coordinates,
     reference |-> reference, magneticNorth |-> magneticNorth]

\* new FixModel(name, coordinates, referencePosition)
FixModel(name, coordinates, reference) ==
    [t |-> "FixModel", name |-> name,
     positionModel |->
        StaticPositionModel(coordinates, reference.coordinates,
                            reference.magneticNorth)]

\* FixCollection.addItems(fixes, referencePosition): builds the registry
\* once, and fails while it is populated
FixCollection_addItems(items, fixes, reference) ==
    IF Len(items) # 0
    THEN [raised |-> TRUE, items |-> items]
    ELSE [raised |-> FALSE,
          items |-> [i \in 1..Len(fixes) |->
                        FixModel(fixes[i].key, fixes[i].value, reference)]]

\* FixCollection.removeItems()
FixCollection_removeItems(items) == <<>>

\* FixCollection.findFixByName(name): the fix, or explicit absence
FixCollection_findFixByName(items, fixName) ==
    IF \E i \in 1..Len(items) : items[i].name = fixName
    THEN items[CHOOSE i \in 1..Len(items) : items[i].name = fixName]
    ELSE Null

\* FixCollection.getPositionModelForFixName(name)
FixCollection_getPositionModelForFixName(items, fixName) ==
    LET fixModel == FixCollection_findFixByName(items, fixName)
    IN  IF fixModel = Null THEN Null ELSE fixModel.positionModel

\* FixCollection.getFixRelativePosition(name)
FixCollection_getFixRelativePosition(items, fixName) ==
    LET fixModel == FixCollection_findFixByName(items, fixName)
    IN  IF fixModel = Null THEN Null
        ELSE [t |-> "relativePosition", of |-> fixModel.positionModel]

\* new AirwayModel(icao, fixNames, navigationLibrary)
AirwayModel(icao, fixNames) ==
    [t |-> "AirwayModel", icao |-> icao, fixNameCollection |-> fixNames]

\* new ProcedureModel(procedureType, definition)
ProcedureModel(procedureType, definition) ==
    [t |-> "ProcedureModel", procedureType |-> procedureType,
     definition |-> definition]

\* ProcedureModel.getAllFixNamesInUse(): every fix name of every branch
ProcedureModel_getAllFixNamesInUse(procedureModel) ==
    uniq(flatten(procedureModel.definition))

-----------------------------------------------------------------------------
(* NavigationLibrary *)

\* the four things the library owns, as one value
Library(reference, items, airways, procedures) ==
    [referencePosition |-> reference, fixItems |-> items,
     airwayCollection |-> airways, procedureCollection |-> procedures]

\* constructor
NavigationLibrary == Library(Null, <<>>, <<>>, <<>>)

_initializeReferencePosition(airportJson) ==
    StaticPositionModel(airportJson.position, Null,
                        degreesToRadians(airportJson.magnetic_north))

\* _forEach(airways, ...): stops at the first airway name already stored
RECURSIVE _initializeAirwayCollection(_, _)
_initializeAirwayCollection(collection, airways) ==
    IF airways = <<>> THEN [raised |-> FALSE, collection |-> collection]
    ELSE LET airwayName == Head(airways).key
             fixNames == Head(airways).value
         IN  IF In(airwayName, collection)
             THEN [raised |-> TRUE, collection |-> collection]
             ELSE _initializeAirwayCollection(
                      Put(collection, airwayName,
                          AirwayModel(airwayName, fixNames)),
                      Tail(airways))

\* addProcedures without the `in` test: a redefinition replaces the stored model
RECURSIVE addProcedures_overwriting(_, _, _)
addProcedures_overwriting(collection, procedures, procedureType) ==
    IF procedures = <<>> THEN [raised |-> FALSE, collection |-> collection]
    ELSE addProcedures_overwriting(
             Put(collection, Head(procedures).key,
                 ProcedureModel(procedureType, Head(procedures).value)),
             Tail(procedures), procedureType)

\* one _forEach of _initializeProcedureCollection, for one procedure type
RECURSIVE addProcedures(_, _, _)
addProcedures(collection, procedures, procedureType) ==
    IF procedures = <<>> THEN [raised |-> FALSE, collection |-> collection]
    ELSE LET procedureId == Head(procedures).key
         IN  IF In(procedureId, collection)
             THEN [raised |-> TRUE, collection |-> collection]
             ELSE addProcedures(
                      Put(collection, procedureId,
                          ProcedureModel(procedureType,
                                         Head(procedures).value)),
                      Tail(procedures), procedureType)

_initializeProcedureCollection(collection, sids, stars) ==
    LET afterSids == addProcedures(collection, sids, "SID")
    IN  IF afterSids.raised THEN afterSids
        ELSE addProcedures(afterSids.collection, stars, "STAR")

\* _getAllFixNamesInUse without the final sort()
_getAllFixNamesInUse_unsorted(lib) ==
    LET airwayFixes ==
            [i \in 1..Len(lib.airwayCollection) |->
                Values(lib.airwayCollection)[i].fixNameCollection]
        fixGroups ==
            [i \in 1..Len(lib.procedureCollection) |->
                ProcedureModel_getAllFixNamesInUse(
                    Values(lib.procedureCollection)[i])]
    IN  without(uniq(flatten(airwayFixes \o fixGroups)), Undefined)

_getAllFixNamesInUse(lib) ==
    LET airwayFixes ==
            [i \in 1..Len(lib.airwayCollection) |->
                Values(lib.airwayCollection)[i].fixNameCollection]
        fixGroups ==
            [i \in 1..Len(lib.procedureCollection) |->
                ProcedureModel_getAllFixNamesInUse(
                    Values(lib.procedureCollection)[i])]
        uniqueFixNames ==
            without(uniq(flatten(airwayFixes \o fixGroups)), Undefined)
    IN  sort(uniqueFixNames)

\* the local `missingFixes` of _showConsoleWarningForUndefinedFixes
missingFixes(lib) ==
    LET allFixNames == _getAllFixNamesInUse(lib)
        defined(fix) == FixCollection_findFixByName(lib.fixItems, fix) # Null
    IN  filter(allFixNames, LAMBDA fix : ~defined(fix))

\* a warning per undefined fix
_showConsoleWarningForUndefinedFixes_perFix(lib) ==
    [i \in 1..Len(missingFixes(lib)) |->
        [warn |-> "The following fixes have yet to be defined",
         fixes |-> <<missingFixes(lib)[i]>>]]

\* what _showConsoleWarningForUndefinedFixes writes to the console
_showConsoleWarningForUndefinedFixes(lib) ==
    IF Len(missingFixes(lib)) < 1 THEN <<>>
    ELSE << [warn |-> "The following fixes have yet to be defined",
             fixes |-> missingFixes(lib)] >>

\* init(airportJson): the library it leaves, whether it raised, and what it
\* printed
init(lib, airportJson) ==
    LET s1 == [lib EXCEPT !.referencePosition =
                            _initializeReferencePosition(airportJson)]
        f == FixCollection_addItems(s1.fixItems, airportJson.fixes,
                                    s1.referencePosition)
        s2 == [s1 EXCEPT !.fixItems = f.items]
        a == _initializeAirwayCollection(s2.airwayCollection,
                                         airportJson.airways)
        s3 == [s2 EXCEPT !.airwayCollection = a.collection]
        p == _initializeProcedureCollection(s3.procedureCollection,
                                            airportJson.sids,
                                            airportJson.stars)
        s4 == [s3 EXCEPT !.procedureCollection = p.collection]
    IN  IF f.raised THEN [lib |-> s1, raised |-> TRUE, console |-> <<>>]
        ELSE IF a.raised THEN [lib |-> s3, raised |-> TRUE, console |-> <<>>]
        ELSE IF p.raised THEN [lib |-> s4, raised |-> TRUE, console |-> <<>>]
        ELSE [lib |-> s4, raised |-> FALSE,
              console |-> _showConsoleWarningForUndefinedFixes(s4)]

\* reset() that forgets the fix registry
reset_keepingFixes(lib) == Library(Null, lib.fixItems, <<>>, <<>>)

\* reset() that forgets the airway collection
reset_keepingAirways(lib) ==
    Library(Null, FixCollection_removeItems(lib.fixItems),
            lib.airwayCollection, <<>>)

\* reset() that forgets the procedure collection
reset_keepingProcedures(lib) ==
    Library(Null, FixCollection_removeItems(lib.fixItems), <<>>,
            lib.procedureCollection)

\* reset()
reset(lib) ==
    Library(Null, FixCollection_removeItems(lib.fixItems), <<>>, <<>>)

\* the query surface
findFixByName(lib, fixName) == FixCollection_findFixByName(lib.fixItems, fixName)

getFixRelativePosition(lib, fixName) ==
    FixCollection_getFixRelativePosition(lib.fixItems, fixName)

hasAirway(lib, airwayId) == In(airwayId, lib.airwayCollection)

hasProcedure(lib, procedureId) == In(procedureId, lib.procedureCollection)

getAirway(lib, airwayId) ==
    IF ~hasAirway(lib, airwayId) THEN Null
    ELSE Get(lib.airwayCollection, airwayId)

getProcedure(lib, procedureId) ==
    IF ~hasProcedure(lib, procedureId) THEN Null
    ELSE Get(lib.procedureCollection, procedureId)

hasFixName(lib, fixName) ==
    LET fixOrNull == findFixByName(lib, fixName)
    IN  ~(fixOrNull = Null \/ fixOrNull = Undefined)

hasSids(lib) ==
    LET sidProcedureModels ==
            filter(Values(lib.procedureCollection),
                   LAMBDA procedure : procedure.procedureType = "SID")
    IN  Len(sidProcedureModels) > 0

hasStars(lib) ==
    LET starProcedureModels ==
            filter(Values(lib.procedureCollection),
                   LAMBDA procedure : procedure.procedureType = "STAR")
    IN  Len(starProcedureModels) > 0

-----------------------------------------------------------------------------
(* Airport descriptors *)

BA == <<"B", "A">>

BAK == <<"B", "A", "K">>

CLA == <<"C", "L", "A">>

DAG == <<"D", "A", "G">>

V1 == <<"V", "1">>

V2 == <<"V", "2">>

J3 == <<"J", "3">>

P1 == <<"P", "1">>

P2 == <<"P", "2">>

P3 == <<"P", "3">>

FixNames == {BA, BAK, CLA, DAG}

AirwayIds == {V1, V2, J3}

ProcedureIds == {P1, P2, P3}

Entry(key, value) == [key |-> key, value |-> value]

AirportJson(position, magneticNorth, fixes, airways, sids, stars) ==
    [position |-> position, magnetic_north |-> magneticNorth,
     fixes |-> fixes, airways |-> airways, sids |-> sids, stars |-> stars]

\* no fixes of its own; one airway over fixes it does not define
AirportNoFixes ==
    AirportJson("N36W115", 11, <<>>,
                <<Entry(V1, <<CLA, BAK, BA>>)>>, <<>>, <<>>)

\* airways and procedures that use the undefined fixes DAG (three times)
\* and BA
AirportMissingFixes ==
    AirportJson("N37W122", 13,
                <<Entry(BAK, "N37W121"), Entry(CLA, "N38W122")>>,
                <<Entry(V1, <<CLA, BAK>>), Entry(V2, <<DAG, CLA, BA>>)>>,
                <<Entry(P1, << <<DAG, BAK>>, <<CLA, DAG>> >>)>>,
                <<Entry(P2, << <<BA>> >>)>>)

\* P1 is both a SID and a STAR
AirportDuplicateProcedure ==
    AirportJson("N40W073", 12,
                <<Entry(DAG, "N41W073")>>,
                <<Entry(V2, <<DAG>>)>>,
                <<Entry(P1, << <<DAG>> >>)>>,
                <<Entry(P2, << <<DAG>> >>), Entry(P1, << <<DAG>> >>),
                  Entry(P3, << <<DAG>> >>)>>)

\* no fixes; its second airway is the one AirportNoFixes defines
AirportMoreAirways ==
    AirportJson("N33W084", 5, <<>>,
                <<Entry(V2, <<BAK>>), Entry(V1, <<BAK>>), Entry(J3, <<BAK>>)>>,
                <<Entry(P2, << <<BAK>> >>)>>, <<>>)

\* every fix in use is defined
AirportComplete ==
    AirportJson("N47W122", 16,
                <<Entry(BAK, "N47W121"), Entry(BA, "N46W122")>>,
                <<Entry(J3, <<BAK, BA>>)>>, <<>>,
                <<Entry(P3, << <<BA, BAK>> >>)>>)

Airports ==
    {AirportNoFixes, AirportMissingFixes, AirportDuplicateProcedure,
     AirportMoreAirways, AirportComplete}

-----------------------------------------------------------------------------
(* The library as a state machine *)

lib == Library(referencePosition, fixItems, airwayCollection,
               procedureCollection)

NoWaypoint == [t |-> "none"]

Call(op, arg, raised, result) ==
    [op |-> op, arg |-> arg, raised |-> raised, result |-> result]

LibraryIs(l) ==
    /\ referencePosition' = l.referencePosition
    /\ fixItems' = l.fixItems
    /\ airwayCollection' = l.airwayCollection
    /\ procedureCollection' = l.procedureCollection

FixQueries == {"findFixByName", "getFixRelativePosition", "hasFixName"}

AirwayQueries == {"getAirway", "hasAirway"}

ProcedureQueries == {"getProcedure", "hasProcedure"}

PropertyQueries == {"hasSids", "hasStars"}

Queries == FixQueries \cup AirwayQueries \cup ProcedureQueries
              \cup PropertyQueries

\* the keys a query is called with: an id some airports define, and for the
\* airway and procedure queries a name no airport defines
QueryKeys(query) ==
    IF query \in FixQueries THEN {BAK}
    ELSE IF query \in AirwayQueries THEN {V1, constructor}
    ELSE IF query \in ProcedureQueries THEN {P1, constructor}
    ELSE {<<>>}

\* the value a query returns; none of them has a statement that throws
Answer(l, query, key) ==
    CASE query = "findFixByName" -> findFixByName(l, key)
      [] query = "getFixRelativePosition" -> getFixRelativePosition(l, key)
      [] query = "hasFixName" -> Bool(hasFixName(l, key))
      [] query = "getAirway" -> getAirway(l, key)
      [] query = "hasAirway" -> Bool(hasAirway(l, key))
      [] query = "getProcedure" -> getProcedure(l, key)
      [] query = "hasProcedure" -> Bool(hasProcedure(l, key))
      [] query = "hasSids" -> Bool(hasSids(l))
      [] OTHER -> Bool(hasStars(l))

\* history kept for stating properties; the library has no such fields
\*   initCalled   init() was called since the last reset() (or construction)
\*   initialized  an init() returned normally since the last reset()
\*   released     the airway ids the most recent reset() found and released
\*   firstQuery   the first query answered since the last init() or reset()
\*   repeated     that query was made again since
\*   failed       an init() raised since the last reset() (or construction)
\*   afterFailure the most recent reset() found a library in which an init()
\*                had raised
History(initCalled, isInitialized, released, firstQuery, repeated, failed,
        afterFailure) ==
    [initCalled |-> initCalled, initialized |-> isInitialized,
     released |-> released, firstQuery |-> firstQuery, repeated |-> repeated,
     failed |-> failed, afterFailure |-> afterFailure]

NoCall == Call("none", Null, FALSE, Undefined)

\* history of the waypoint instance, kept for stating properties; the
\* instance has no such fields
\*   token       the raw fix token of its most recent construction or init()
\*               (empty after reset())
\*   armed       the hold was set by a call since then
\*   mutated     a hold mutator was called on the instance at some time
\*   afterReset  the call before the most recent one was reset()
WaypointHistory(token, armed, mutated, afterReset) ==
    [token |-> token, armed |-> armed, mutated |-> mutated,
     afterReset |-> afterReset]

NoWaypointHistory == WaypointHistory(<<>>, FALSE, FALSE, FALSE)

InitLibrary ==
    /\ console = <<>>
    /\ history = History(FALSE, FALSE, {}, NoCall, FALSE, FALSE, FALSE)
    /\ wp = NoWaypoint
    /\ wpHistory = NoWaypointHistory
    /\ last = Call("new", Null, FALSE, Undefined)

Init ==
    /\ referencePosition = NavigationLibrary.referencePosition
    /\ fixItems = NavigationLibrary.fixItems
    /\ airwayCollection = NavigationLibrary.airwayCollection
    /\ procedureCollection = NavigationLibrary.procedureCollection
    /\ InitLibrary

NavInit(airportJson) ==
    LET r == init(lib, airportJson)
    IN  /\ LibraryIs(r.lib)
        /\ console' = r.console
        /\ history' = History(TRUE, history.initialized \/ ~r.raised,
                              history.released, NoCall, FALSE,
                              history.failed \/ r.raised,
                              history.afterFailure)
        /\ last' = Call("init", airportJson, r.raised, Undefined)
        /\ UNCHANGED <<wp, wpHistory>>

NavReset ==
    /\ LibraryIs(reset(lib))
    /\ console' = <<>>
    /\ history' = History(FALSE, FALSE, Keys(airwayCollection), NoCall,
                         FALSE, FALSE, history.failed)
    /\ last' = Call("reset", Null, FALSE, Undefined)
    /\ UNCHANGED <<wp, wpHistory>>

NavQuery(query, key) ==
    /\ last' = Call(query, key, FALSE, Answer(lib, query, key))
    /\ console' = <<>>
    /\ history' =
          IF history.firstQuery = NoCall
          THEN [history EXCEPT !.firstQuery = last']
          ELSE IF history.firstQuery.op = query /\ history.firstQuery.arg = key
          THEN [history EXCEPT !.repeated = TRUE]
          ELSE history
    /\ UNCHANGED <<libVars, wp, wpHistory>>

Next ==
    \/ \E airportJson \in Airports : NavInit(airportJson)
    \/ NavReset
    \/ \E query \in Queries : \E key \in QueryKeys(query) : NavQuery(query, key)

Spec == Init /\ [][Next]_vars

-----------------------------------------------------------------------------
(* Properties of the navigation library *)

\* C1: init() is atomic in effect: an init() that raises leaves the
\* reference position, the fix registry, the airway collection and the
\* procedure collection as they were before the call.
C1_InitIsAtomic ==
    [][(last'.op = "init" /\ last'.raised) => lib' = lib]_vars

\* C2: init() on a library that is already initialized (an init() has
\* returned and there was no reset() since) raises, whatever the descriptor.
C2_SecondInitRaises ==
    [][(history.initialized /\ last'.op = "init") => last'.raised]_vars

\* C3: every query raises while the library is uninitialized (no init() was
\* called since construction or since the last reset()).
C3_QueryBeforeInitRaises ==
    [][(~history.initCalled /\ last'.op \in Queries) => last'.raised]_vars

\* the names in a list of entries
EntryKeys(entries) == {entries[i].key : i \in 1..Len(entries)}

\* the library holds the reference position, fixes, airways and procedures
\* of the descriptor, and nothing else
LoadedExactly(l, airportJson) ==
    /\ l.referencePosition # Null
    /\ l.referencePosition.coordinates = airportJson.position
    /\ l.referencePosition.magneticNorth.degrees = airportJson.magnetic_north
    /\ Len(l.fixItems) = Len(airportJson.fixes)
    /\ \A i \in 1..Len(airportJson.fixes) :
          /\ l.fixItems[i].name = airportJson.fixes[i].key
          /\ l.fixItems[i].positionModel.coordinates = airportJson.fixes[i].value
          /\ l.fixItems[i].positionModel.reference = airportJson.position
    /\ Len(l.airwayCollection) = Len(airportJson.airways)
    /\ \A i \in 1..Len(airportJson.airways) :
          /\ l.airwayCollection[i].key = airportJson.airways[i].key
          /\ l.airwayCollection[i].value.fixNameCollection
                = airportJson.airways[i].value
    /\ Len(l.procedureCollection)
          = Len(airportJson.sids) + Len(airportJson.stars)
    /\ \A i \in 1..Len(airportJson.sids) :
          /\ l.procedureCollection[i].key = airportJson.sids[i].key
          /\ l.procedureCollection[i].value.procedureType = "SID"
          /\ l.procedureCollection[i].value.definition
                = airportJson.sids[i].value
    /\ \A i \in 1..Len(airportJson.stars) :
          LET e == l.procedureCollection[Len(airportJson.sids) + i]
          IN  /\ e.key = airportJson.stars[i].key
              /\ e.value.procedureType = "STAR"
              /\ e.value.definition = airportJson.stars[i].value

\* C4: reset() leaves the reference position null and the fix registry, the
\* airway collection and the procedure collection empty; an init(B) that
\* returns on a library with no init() since the reset leaves exactly B's
\* airways, procedures and fixes; this holds however often the cycle runs.
C4_ResetThenInit ==
    [][ /\ last'.op = "reset" =>
            /\ referencePosition' = Null
            /\ fixItems' = <<>>
            /\ airwayCollection' = <<>>
            /\ procedureCollection' = <<>>
        /\ (~history.initCalled /\ last'.op = "init" /\ ~last'.raised) =>
            LoadedExactly(lib', last'.arg) ]_vars

\* an airport was loaded, released by reset(), and another one loaded that
\* shares no airway with it
C4_Witness ==
    /\ last.op = "init" /\ ~last.raised /\ last.arg = AirportComplete
    /\ V1 \in history.released
    /\ EntryKeys(airwayCollection) = {J3}
    /\ EntryKeys(procedureCollection) = {P3}

\* the ids of `entries` before the first one that is in `taken` or repeats
\* an earlier one
RECURSIVE NewBeforeDuplicate(_, _)
NewBeforeDuplicate(entries, taken) ==
    IF entries = <<>> \/ Head(entries).key \in taken THEN {}
    ELSE {Head(entries).key}
            \cup NewBeforeDuplicate(Tail(entries),
                                    taken \cup {Head(entries).key})

HasDuplicate(entries, taken) ==
    \/ \E i \in 1..Len(entries) : entries[i].key \in taken
    \/ \E i, j \in 1..Len(entries) : i # j /\ entries[i].key = entries[j].key

\* C5: init() raises when an airway id or a procedure id is defined twice
\* (an id in both sids and stars included); the definitions before the first
\* duplicate are stored and none after it; a stored id keeps the model it
\* got, and no id is stored twice.
C5_NoRedefinition ==
    [][ LET airportJson == last'.arg
            procedures == airportJson.sids \o airportJson.stars
            airwayIds == EntryKeys(airwayCollection)
            procedureIds == EntryKeys(procedureCollection)
        IN  /\ (last'.op = "init" /\ Len(fixItems) = 0) =>
                /\ (\/ HasDuplicate(airportJson.airways, airwayIds)
                    \/ HasDuplicate(procedures, procedureIds)) => last'.raised
                /\ EntryKeys(airwayCollection') = airwayIds \cup
                        NewBeforeDuplicate(airportJson.airways, airwayIds)
                /\ EntryKeys(procedureCollection') = procedureIds \cup
                        IF HasDuplicate(airportJson.airways, airwayIds) THEN {}
                        ELSE NewBeforeDuplicate(procedures, procedureIds)
            /\ last'.op # "reset" =>
                /\ Len(airwayCollection') >= Len(airwayCollection)
                /\ Len(procedureCollection') >= Len(procedureCollection)
                /\ \A i \in 1..Len(airwayCollection) :
                      airwayCollection'[i] = airwayCollection[i]
                /\ \A i \in 1..Len(procedureCollection) :
                      procedureCollection'[i] = procedureCollection[i]
            /\ \A i, j \in 1..Len(airwayCollection') :
                  airwayCollection'[i].key = airwayCollection'[j].key => i = j
            /\ \A i, j \in 1..Len(procedureCollection') :
                  procedureCollection'[i].key = procedureCollection'[j].key
                      => i = j ]_vars

\* init() raised at the STAR P1, which was already stored as a SID: the STAR
\* P2 before it is stored, the STAR P3 after it is not
C5_Witness ==
    /\ last.op = "init" /\ last.raised
    /\ last.arg = AirportDuplicateProcedure
    /\ EntryKeys(procedureCollection) = {P1, P2}
    /\ getProcedure(lib, P1).procedureType = "SID"

\* the fix names used by an airway or a procedure of the library
FixNamesInUse ==
    UNION {{airwayCollection[i].value.fixNameCollection[k] :
                k \in 1..Len(airwayCollection[i].value.fixNameCollection)} :
            i \in 1..Len(airwayCollection)}
    \cup
    UNION {UNION {{procedureCollection[i].value.definition[b][k] :
                      k \in 1..Len(procedureCollection[i].value.definition[b])} :
                  b \in 1..Len(procedureCollection[i].value.definition)} :
            i \in 1..Len(procedureCollection)}

\* the list the last call warned about, empty when it printed nothing
WarnedFixes == IF console = <<>> THEN <<>> ELSE console[1].fixes

MissingListIsExact ==
    /\ Len(console) <= 1
    /\ console # <<>> => WarnedFixes # <<>>
    /\ {WarnedFixes[i] : i \in 1..Len(WarnedFixes)}
          = FixNamesInUse \ {fixItems[i].name : i \in 1..Len(fixItems)}
    /\ \A i, j \in 1..Len(WarnedFixes) :
          i < j => StringLess(WarnedFixes[i], WarnedFixes[j])

\* C6: fix names used by airways or procedures but absent from `fixes` do
\* not make init() raise, and the missing-fix list holds exactly the names
\* in use that the fix registry lacks, each once, in sorted order.
C6_MissingFixList ==
    [][ last'.op = "init" =>
          /\ (/\ ~history.initCalled
              /\ ~HasDuplicate(last'.arg.sids \o last'.arg.stars, {}))
                => ~last'.raised
          /\ ~last'.raised => MissingListIsExact'
          /\ (~history.initCalled /\ last'.arg = AirportNoFixes)
                => WarnedFixes' = <<BA, BAK, CLA>> ]_vars

\* DAG is used by an airway and twice by a procedure, BA by an airway and a
\* procedure; DAG comes first in the airport file
C6_Witness ==
    /\ last.op = "init" /\ ~last.raised /\ last.arg = AirportMissingFixes
    /\ WarnedFixes = <<BA, DAG>>

\* C7: on an initialized library a query changes nothing, does not raise,
\* returns null (getAirway, getProcedure) or false (hasAirway, hasProcedure,
\* hasFixName) for a key the library does not hold, and gives the answer the
\* same query gave earlier when only queries were made in between.
C7_QueriesArePure ==
    [][ (history.initialized /\ last'.op \in Queries) =>
          LET key == last'.arg
              unknownAirway == key \notin EntryKeys(airwayCollection)
              unknownProcedure == key \notin EntryKeys(procedureCollection)
              unknownFix == key \notin {fixItems[i].name : i \in 1..Len(fixItems)}
          IN  /\ UNCHANGED libVars
              /\ ~last'.raised
              /\ (last'.op = "getAirway" /\ unknownAirway)
                    => last'.result = Null
              /\ (last'.op = "hasAirway" /\ unknownAirway)
                    => last'.result = Bool(FALSE)
              /\ (last'.op = "getProcedure" /\ unknownProcedure)
                    => last'.result = Null
              /\ (last'.op = "hasProcedure" /\ unknownProcedure)
                    => last'.result = Bool(FALSE)
              /\ (last'.op = "hasFixName" /\ unknownFix)
                    => last'.result = Bool(FALSE)
              /\ (last'.op = "findFixByName" /\ unknownFix)
                    => last'.result = Null
              /\ (history.firstQuery.op = last'.op
                    /\ history.firstQuery.arg = key)
                    => last'.result = history.firstQuery.result ]_vars

\* the same for the keys that are not names of Object.prototype: there the
\* statement holds
QueriesArePureForOrdinaryKeys ==
    [][ (history.initialized /\ last'.op \in Queries
            /\ last'.arg \notin ObjectPrototype) =>
          LET key == last'.arg
              unknownAirway == key \notin EntryKeys(airwayCollection)
              unknownProcedure == key \notin EntryKeys(procedureCollection)
              unknownFix == key \notin {fixItems[i].name : i \in 1..Len(fixItems)}
          IN  /\ UNCHANGED libVars
              /\ ~last'.raised
              /\ (last'.op = "getAirway" /\ unknownAirway)
                    => last'.result = Null
              /\ (last'.op = "hasAirway" /\ unknownAirway)
                    => last'.result = Bool(FALSE)
              /\ (last'.op = "getProcedure" /\ unknownProcedure)
                    => last'.result = Null
              /\ (last'.op = "hasProcedure" /\ unknownProcedure)
                    => last'.result = Bool(FALSE)
              /\ (last'.op = "hasFixName" /\ unknownFix)
                    => last'.result = Bool(FALSE)
              /\ (last'.op = "findFixByName" /\ unknownFix)
                    => last'.result = Null
              /\ (history.firstQuery.op = last'.op
                    /\ history.firstQuery.arg = key)
                    => last'.result = history.firstQuery.result ]_vars

-----------------------------------------------------------------------------
(* WaypointModel: the strict class and the legacy class *)

INVALID_NUMBER == -1

INVALID_INDEX == -1

\* DEFAULT_HOLD_PARAMETERS of waypointConstants
DEFAULT_HOLD_PARAMETERS ==
    [inboundHeading |-> Undefined, legLength |-> "1min",
     timer |-> INVALID_NUMBER, turnDirection |-> "right"]

\* values handed to the constructor or to init()
String(s) == [t |-> "string", s |-> s]

Array(items) == [t |-> "array", items |-> items]

Number(v) == [t |-> "number", v |-> v]

\* the fields the constructor sets before it calls init(); reset() sets the
\* same.  The legacy class starts with no hold parameters.
Pristine(variant) ==
    [t |-> "WaypointModel", variant |-> variant,
     altitudeMaximum |-> -1, altitudeMinimum |-> -1,
     speedMaximum |-> -1, speedMinimum |-> -1,
     _holdParameters |-> IF variant = "strict"
                         THEN DEFAULT_HOLD_PARAMETERS ELSE Null,
     _isFlyOverWaypoint |-> FALSE, _isHoldWaypoint |-> FALSE,
     _isVectorWaypoint |-> FALSE, _name |-> <<>>, _positionModel |-> Null]

\* reset() that leaves the hold fields alone
WaypointModel_reset_keepingHold(w) ==
    [Pristine(w.variant) EXCEPT !._holdParameters = w._holdParameters,
                                !._isHoldWaypoint = w._isHoldWaypoint]

\* reset()
WaypointModel_reset(w) == Pristine(w.variant)

\* _initFlyOverWaypoint that marks a vector waypoint as well
_initFlyOverWaypoint_andVector(w) ==
    [w EXCEPT !._isFlyOverWaypoint = TRUE, !._isVectorWaypoint = TRUE]

_initFlyOverWaypoint(w) == [w EXCEPT !._isFlyOverWaypoint = TRUE]

\* the legacy class also installs the default hold parameters here
_initHoldWaypoint(w) ==
    IF w.variant = "strict" THEN [w EXCEPT !._isHoldWaypoint = TRUE]
    ELSE [w EXCEPT !._isHoldWaypoint = TRUE,
                   !._holdParameters =
                        [inboundHeading |-> Undefined, legLength |-> 1,
                         timer |-> INVALID_NUMBER, turnDirection |-> "right"]]

_initVectorWaypoint(w) == [w EXCEPT !._isVectorWaypoint = TRUE]

\* _initSpecialWaypoint that takes a token with no marker as a vector
_initSpecialWaypoint_vectorByDefault(w, fixName) ==
    IF indexOf(fixName, "^") # INVALID_INDEX THEN _initFlyOverWaypoint(w)
    ELSE IF indexOf(fixName, "@") # INVALID_INDEX THEN _initHoldWaypoint(w)
    ELSE _initVectorWaypoint(w)

_initSpecialWaypoint(w, fixName) ==
    IF indexOf(fixName, "^") # INVALID_INDEX THEN _initFlyOverWaypoint(w)
    ELSE IF indexOf(fixName, "@") # INVALID_INDEX THEN _initHoldWaypoint(w)
    ELSE IF indexOf(fixName, "#") # INVALID_INDEX THEN _initVectorWaypoint(w)
    ELSE w

\* _applyAltitudeRestriction that keeps the token's number as feet
_applyAltitudeRestriction_unscaled(w, restriction) ==
    LET altitude == parseInt(restriction)
    IN  IF indexOf(restriction, "+") # -1
        THEN [w EXCEPT !.altitudeMinimum = altitude]
        ELSE IF indexOf(restriction, "-") # -1
        THEN [w EXCEPT !.altitudeMaximum = altitude]
        ELSE [w EXCEPT !.altitudeMaximum = altitude,
                       !.altitudeMinimum = altitude]

_applyAltitudeRestriction(w, restriction) ==
    LET altitude == Times(parseInt(restriction), 100)
    IN  IF indexOf(restriction, "+") # -1
        THEN [w EXCEPT !.altitudeMinimum = altitude]
        ELSE IF indexOf(restriction, "-") # -1
        THEN [w EXCEPT !.altitudeMaximum = altitude]
        ELSE [w EXCEPT !.altitudeMaximum = altitude,
                       !.altitudeMinimum = altitude]

_applySpeedRestriction(w, restriction) ==
    LET speed == parseInt(restriction)
    IN  IF indexOf(restriction, "+") # -1
        THEN [w EXCEPT !.speedMinimum = speed]
        ELSE IF indexOf(restriction, "-") # -1
        THEN [w EXCEPT !.speedMaximum = speed]
        ELSE [w EXCEPT !.speedMaximum = speed, !.speedMinimum = speed]

\* the loop without its else branch: other prefixes are passed over
RECURSIVE applyEach_skipping(_, _)
applyEach_skipping(w, restrictionCollection) ==
    IF restrictionCollection = <<>> THEN [wp |-> w, raised |-> FALSE]
    ELSE LET restriction == Head(restrictionCollection)
         IN  IF restriction # <<>> /\ Head(restriction) = "A"
             THEN applyEach_skipping(
                      _applyAltitudeRestriction(w, substr1(restriction)),
                      Tail(restrictionCollection))
             ELSE IF restriction # <<>> /\ Head(restriction) = "S"
             THEN applyEach_skipping(
                      _applySpeedRestriction(w, substr1(restriction)),
                      Tail(restrictionCollection))
             ELSE applyEach_skipping(w, Tail(restrictionCollection))

\* the for loop of _applyRestrictions, from the first restriction left
RECURSIVE applyEach(_, _)
applyEach(w, restrictionCollection) ==
    IF restrictionCollection = <<>> THEN [wp |-> w, raised |-> FALSE]
    ELSE LET restriction == Head(restrictionCollection)
         IN  IF restriction # <<>> /\ Head(restriction) = "A"
             THEN applyEach(_applyAltitudeRestriction(w, substr1(restriction)),
                            Tail(restrictionCollection))
             ELSE IF restriction # <<>> /\ Head(restriction) = "S"
             THEN applyEach(_applySpeedRestriction(w, substr1(restriction)),
                            Tail(restrictionCollection))
             ELSE [wp |-> w, raised |-> TRUE]

_applyRestrictions(w, restrictions) ==
    IF Len(restrictions) = 0 THEN [wp |-> w, raised |-> FALSE]
    ELSE applyEach(w, split(restrictions, "|"))

\* _initializePosition that stores whatever the registry returns
_initializePosition_soft(w, items) ==
    IF w._isVectorWaypoint THEN [wp |-> w, raised |-> FALSE]
    ELSE [wp |-> [w EXCEPT !._positionModel =
                    FixCollection_getPositionModelForFixName(items, w._name)],
          raised |-> FALSE]

\* strict: throws when the position is falsy; legacy: when it is null
_initializePosition(w, items) ==
    IF w._isVectorWaypoint THEN [wp |-> w, raised |-> FALSE]
    ELSE LET fixPosition ==
                FixCollection_getPositionModelForFixName(items, w._name)
         IN  IF fixPosition = Null \/ (w.variant = "strict"
                                        /\ fixPosition = Undefined)
             THEN [wp |-> w, raised |-> TRUE]
             ELSE [wp |-> [w EXCEPT !._positionModel = fixPosition],
                   raised |-> FALSE]

\* init(data) on the instance w, against the fix registry `items`: the
\* instance as the call leaves it, and whether the call threw
WaypointModel_init(w, data, items) ==
    IF data.t = "array" /\ Len(data.items) # 2
    THEN [wp |-> w, raised |-> TRUE]
    ELSE IF data.t \notin {"array", "string"}
    THEN [wp |-> w, raised |-> TRUE]
    ELSE LET fixName == IF data.t = "array" THEN data.items[1] ELSE data.s
             restrictions == IF data.t = "array" THEN data.items[2] ELSE <<>>
             named == [w EXCEPT !._name = replace(replace(fixName, "@"), "^")]
             special == _initSpecialWaypoint(named, fixName)
             restricted == _applyRestrictions(special, restrictions)
         IN  IF restricted.raised THEN restricted
             ELSE _initializePosition(restricted.wp, items)

\* new WaypointModel(data): the instance, or none when the constructor threw
WaypointModel(variant, data, items) ==
    IF data.t # "string" /\ data.t # "array"
    THEN [wp |-> NoWaypoint, raised |-> TRUE]
    ELSE LET r == WaypointModel_init(Pristine(variant), data, items)
         IN  IF r.raised THEN [wp |-> NoWaypoint, raised |-> TRUE] ELSE r

\* waypointModel instanceof WaypointModel, for the class of `w`
InstanceOfWaypointModel(w, value) ==
    value.t = "WaypointModel" /\ value.variant = w.variant

\* StaticPositionModel.bearingToPosition / distanceToPosition: the value is
\* kept as the pair of positions it is computed from
PositionCalculation(kind, from, to) ==
    [t |-> kind, from |-> from, to |-> to]

\* the guard that looks at `this` only
_ensureNonVectorWaypointsForThis(w, waypointModel) ==
    IF ~InstanceOfWaypointModel(w, waypointModel) THEN "throw"
    ELSE IF w._isVectorWaypoint THEN "throw"
    ELSE "pass"

_ensureNonVectorWaypointsForThisAndWaypoint(w, waypointModel) ==
    IF ~InstanceOfWaypointModel(w, waypointModel) THEN "throw"
    ELSE IF w._isVectorWaypoint \/ waypointModel._isVectorWaypoint
    THEN "throw"
    ELSE "pass"

\* the calculations with the legacy class testing the class of the operand
\* only, and not for vector waypoints
calculateToWaypoint_vectorsUntested(kind, w, waypointModel) ==
    IF w.variant = "strict"
    THEN IF _ensureNonVectorWaypointsForThisAndWaypoint(w, waypointModel)
                = "throw"
         THEN [raised |-> TRUE, result |-> Undefined]
         ELSE IF w._positionModel = Null
         THEN [raised |-> TRUE, result |-> Undefined]
         ELSE [raised |-> FALSE,
               result |-> PositionCalculation(kind, w._positionModel,
                                              waypointModel._positionModel)]
    ELSE IF ~InstanceOfWaypointModel(w, waypointModel)
         THEN [raised |-> FALSE,
               result |-> IF kind = "distance" THEN Number(0) ELSE Undefined]
         ELSE IF w._positionModel = Null
         THEN [raised |-> TRUE, result |-> Undefined]
         ELSE [raised |-> FALSE,
               result |-> PositionCalculation(kind, w._positionModel,
                                              waypointModel._positionModel)]

\* calculateBearingToWaypoint / calculateDistanceToWaypoint.  Reading a
\* method of a null position model throws as well.
calculateToWaypoint(kind, w, waypointModel) ==
    IF w.variant = "strict"
    THEN IF _ensureNonVectorWaypointsForThisAndWaypoint(w, waypointModel)
                = "throw"
         THEN [raised |-> TRUE, result |-> Undefined]
         ELSE IF w._positionModel = Null
         THEN [raised |-> TRUE, result |-> Undefined]
         ELSE [raised |-> FALSE,
               result |-> PositionCalculation(kind, w._positionModel,
                                              waypointModel._positionModel)]
    ELSE IF ~InstanceOfWaypointModel(w, waypointModel)
         THEN [raised |-> FALSE,
               result |-> IF kind = "distance" THEN Number(0) ELSE Undefined]
         ELSE IF w._isVectorWaypoint \/ waypointModel._isVectorWaypoint
         THEN [raised |-> FALSE,
               result |-> IF kind = "distance" THEN Number(0) ELSE Undefined]
         ELSE IF w._positionModel = Null
         THEN [raised |-> TRUE, result |-> Undefined]
         ELSE [raised |-> FALSE,
               result |-> PositionCalculation(kind, w._positionModel,
                                              waypointModel._positionModel)]

\* getVector(): the heading of a vector waypoint, in radians
getVector(w) ==
    IF ~w._isVectorWaypoint THEN Undefined
    ELSE LET fixNameWithOutPoundSign == replace(w._name, "#")
             headingInDegrees == parseInt(fixNameWithOutPoundSign)
         IN  degreesToRadians(headingInDegrees)

\* the getter without its guard
holdParameters_unguarded(w) == w._holdParameters

\* the holdParameters getter
holdParameters(w) ==
    IF ~w._isHoldWaypoint THEN Undefined ELSE w._holdParameters

activateHold(w) == [w EXCEPT !._isHoldWaypoint = TRUE]

\* deactivateHold that leaves the flag as it is
deactivateHold_keeping(w) == w

deactivateHold(w) == [w EXCEPT !._isHoldWaypoint = FALSE]

\* Object.assign({}, target, source): the fields of both, those of source
\* taking precedence; a null or undefined source is passed over
ObjectAssign(target, source) ==
    IF source \in {Null, Undefined} THEN target
    ELSE [f \in DOMAIN target \cup DOMAIN source |->
            IF f \in DOMAIN source THEN source[f] ELSE target[f]]

\* setHoldParameters that stores the argument in place of the parameters
setHoldParameters_replacing(w, parameters) ==
    [w EXCEPT !._holdParameters = parameters]

setHoldParameters(w, parameters) ==
    [w EXCEPT !._holdParameters = ObjectAssign(w._holdParameters, parameters)]

setHoldParametersAndActivateHold(w, parameters) ==
    activateHold(setHoldParameters(w, parameters))

\* arming that stores the parameters and leaves the flag
setHoldParameters_unarmed(w, inboundHeading, turnDirection, legLength) ==
    [w EXCEPT !._holdParameters =
                   [turnDirection |-> turnDirection,
                    inboundHeading |-> inboundHeading,
                    legLength |-> legLength,
                    timer |-> INVALID_NUMBER]]

\* the legacy class
setHoldParametersAndArmHold(w, inboundHeading, turnDirection, legLength) ==
    [w EXCEPT !._isHoldWaypoint = TRUE,
              !._holdParameters =
                   [turnDirection |-> turnDirection,
                    inboundHeading |-> inboundHeading,
                    legLength |-> legLength,
                    timer |-> INVALID_NUMBER]]

\* setHoldTimer without the typeof test: what is no number is passed over
setHoldTimer_unchecked(w, expirationTime) ==
    IF expirationTime.t # "number" THEN [wp |-> w, raised |-> FALSE]
    ELSE [wp |-> [w EXCEPT !._holdParameters.timer = expirationTime.v],
          raised |-> FALSE]

\* setHoldTimer(expirationTime): throws unless typeof is 'number'
setHoldTimer(w, expirationTime) ==
    IF expirationTime.t # "number" THEN [wp |-> w, raised |-> TRUE]
    ELSE [wp |-> [w EXCEPT !._holdParameters.timer = expirationTime.v],
          raised |-> FALSE]

resetHoldTimer(w) ==
    [w EXCEPT !._holdParameters.timer = DEFAULT_HOLD_PARAMETERS.timer]

\* a < b of two numbers, false when either is NaN
LessThan(a, b) == a # NaN /\ b # NaN /\ a < b

\* the comparison without the test for an unset bound
hasMaximumAltitudeBelow_unguarded(w, altitude) ==
    LessThan(w.altitudeMaximum, altitude)

hasMaximumAltitudeBelow(w, altitude) ==
    w.altitudeMaximum # INVALID_NUMBER /\ LessThan(w.altitudeMaximum, altitude)

hasMinimumAltitudeAbove(w, altitude) ==
    w.altitudeMinimum # INVALID_NUMBER /\ LessThan(altitude, w.altitudeMinimum)

-----------------------------------------------------------------------------
(* Waypoint construction inputs *)

\* the most restrictions in one restriction string
MaxRestrictions == 2

\* a restriction as the route parser means it: an altitude (hundreds of
\* feet) or a speed (knots), at least (+), at most (-) or exactly
Restriction(kind, n, suffix) == [kind |-> kind, n |-> n, suffix |-> suffix]

WellFormedRestrictions ==
    {Restriction(kind, n, suffix) :
        kind \in {"A", "S"}, n \in {50, 210}, suffix \in {<<>>, <<"+">>, <<"-">>}}

MalformedRestrictions == {Restriction("X", 100, <<>>)}

\* the token of a restriction, e.g. A50-
RestrictionToken(restriction) ==
    <<restriction.kind>> \o NumberToString(restriction.n) \o restriction.suffix

RestrictionLists(restrictions) ==
    UNION {[1..n -> restrictions] : n \in 0..MaxRestrictions}

\* the restriction string of a list of restrictions, e.g. A50-|S210-
RestrictionString(list) ==
    join([i \in 1..Len(list) |-> RestrictionToken(list[i])], <<"|">>)

Vector270 == <<"#", "2", "7", "0">>

\* fix tokens given alone
FixTokens ==
    {BAK, DAG, <<"@">> \o BAK, <<"^">> \o BAK, Vector270,
     <<"^">> \o Vector270, <<"@", "^">> \o BA}

\* fix tokens given with a restriction string
RestrictedFixTokens == {BAK, Vector270}

\* values that are no construction input
MalformedData ==
    {Number(42), Null, Undefined, Array(<<BAK>>), Array(<<BAK, <<>>, <<>>>>)}

\* what init() is called with on an existing instance
ReinitData ==
    {String(token) : token \in {BAK, DAG, <<"@">> \o BAK, Vector270}}
    \cup {Array(<<BAK, RestrictionToken(Restriction("A", 50, <<"+">>))>>),
          Array(<<BAK, RestrictionToken(Restriction("X", 100, <<>>))>>),
          Number(42)}

Variants == {"strict", "legacy"}

\* what the other operand of a bearing or distance calculation can be: no
\* waypoint at all, or a waypoint just constructed against the registry
OtherOperands(variant) ==
    {Null, Undefined, String(BAK)}
    \cup {WaypointModel(variant, String(token), fixItems).wp :
            token \in {r \in {BA, <<"@">> \o BAK, Vector270} :
                        ~WaypointModel(variant, String(r), fixItems).raised}}

-----------------------------------------------------------------------------
(* The life of one waypoint instance, against a library that stays as     *)
(* loaded: constructed by the first call, then reinitialised, reset and    *)
(* used in calculations                                                    *)

\* the fix token of a construction input of valid shape
FixTokenOf(data) == IF data.t = "string" THEN data.s ELSE data.items[1]

ValidShape(data) ==
    data.t = "string" \/ (data.t = "array" /\ Len(data.items) = 2)

\* the call `new WaypointModel(data)`; `restrictions` is what the restriction
\* string of data was written from
Construction(variant, data, restrictions) ==
    [variant |-> variant, data |-> data, restrictions |-> restrictions]

InitWaypoint ==
    /\ \E l \in {NavigationLibrary, init(NavigationLibrary, AirportComplete).lib} :
          /\ referencePosition = l.referencePosition
          /\ fixItems = l.fixItems
          /\ airwayCollection = l.airwayCollection
          /\ procedureCollection = l.procedureCollection
          /\ history = History(l # NavigationLibrary, l # NavigationLibrary,
                               {}, NoCall, FALSE, FALSE, FALSE)
    /\ console = <<>>
    /\ wp = NoWaypoint
    /\ wpHistory = NoWaypointHistory
    /\ last = Call("new", Null, FALSE, Undefined)

WpConstruct(variant, data, restrictions) ==
    LET r == WaypointModel(variant, data, fixItems)
    IN  /\ wp = NoWaypoint /\ last.op = "new"
        /\ wp' = r.wp
        /\ last' = Call("new WaypointModel",
                        Construction(variant, data, restrictions),
                        r.raised, Undefined)
        /\ wpHistory' = IF r.raised THEN NoWaypointHistory
                        ELSE WaypointHistory(FixTokenOf(data), FALSE, FALSE,
                                             FALSE)
        /\ console' = <<>>
        /\ UNCHANGED <<libVars, history>>

WpInit(data) ==
    LET r == WaypointModel_init(wp, data, fixItems)
    IN  /\ wp # NoWaypoint
        /\ wp' = r.wp
        /\ last' = Call("WaypointModel.init", data, r.raised, Undefined)
        /\ wpHistory' =
              IF ValidShape(data)
              THEN WaypointHistory(FixTokenOf(data), FALSE, wpHistory.mutated,
                                   last.op = "WaypointModel.reset")
              ELSE [wpHistory EXCEPT !.afterReset = FALSE]
        /\ console' = <<>>
        /\ UNCHANGED <<libVars, history>>

\* reset() is chainable: it returns the instance
WpReset ==
    /\ wp # NoWaypoint
    /\ wp' = WaypointModel_reset(wp)
    /\ last' = Call("WaypointModel.reset", Null, FALSE, wp')
    /\ wpHistory' = WaypointHistory(<<>>, FALSE, wpHistory.mutated, FALSE)
    /\ console' = <<>>
    /\ UNCHANGED <<libVars, history>>

WpCalculate(kind, waypointModel) ==
    LET r == calculateToWaypoint(kind, wp, waypointModel)
    IN  /\ wp # NoWaypoint
        /\ last' = Call(IF kind = "bearing" THEN "calculateBearingToWaypoint"
                        ELSE "calculateDistanceToWaypoint",
                        waypointModel, r.raised, r.result)
        /\ wpHistory' = [wpHistory EXCEPT !.afterReset = FALSE]
        /\ console' = <<>>
        /\ UNCHANGED <<libVars, history, wp>>

WpGetVector ==
    /\ wp # NoWaypoint
    /\ last' = Call("getVector", Null, FALSE, getVector(wp))
    /\ wpHistory' = [wpHistory EXCEPT !.afterReset = FALSE]
    /\ console' = <<>>
    /\ UNCHANGED <<libVars, history, wp>>

NextWaypoint ==
    \/ \E variant \in Variants, token \in FixTokens :
          WpConstruct(variant, String(token), <<>>)
    \/ \E variant \in Variants, token \in RestrictedFixTokens,
          list \in RestrictionLists(WellFormedRestrictions
                                      \cup MalformedRestrictions) :
          WpConstruct(variant, Array(<<token, RestrictionString(list)>>), list)
    \/ \E variant \in Variants, data \in MalformedData :
          WpConstruct(variant, data, <<>>)
    \/ \E data \in ReinitData : WpInit(data)
    \/ WpReset
    \/ WpGetVector
    \/ /\ wp # NoWaypoint
       /\ \E kind \in {"bearing", "distance"} :
             \E waypointModel \in OtherOperands(wp.variant) :
                 WpCalculate(kind, waypointModel)

WaypointSpec == InitWaypoint /\ [][NextWaypoint]_vars

-----------------------------------------------------------------------------
(* The use of one waypoint instance: constructed against the loaded        *)
(* library, then held, queried, reset and reinitialised                    *)

\* what the instance is constructed from, with the restrictions the
\* restriction string was written from
UseConstructions ==
    {Construction(variant, String(token), <<>>) :
        variant \in Variants,
        token \in {BAK, <<"@">> \o BAK, Vector270, <<"@", "^">> \o BA}}
    \cup
    {Construction(variant, Array(<<BAK, RestrictionString(list)>>), list) :
        variant \in Variants,
        list \in {<<Restriction("A", 50, <<"+">>)>>,
                  <<Restriction("A", 210, <<>>)>>,
                  <<Restriction("A", 50, <<"-">>),
                    Restriction("S", 210, <<"-">>)>>}}

\* what init() is called with in place; DAG is not in the registry
UseReinitData ==
    {String(BAK), String(<<"@">> \o BAK), String(<<"@">> \o DAG),
     Array(<<BAK, RestrictionToken(Restriction("A", 50, <<"+">>))>>)}

Heading90 == degreesToRadians(90)

\* arguments of setHoldParameters and setHoldParametersAndActivateHold
HoldParameterInputs ==
    {[turnDirection |-> "left"],
     [inboundHeading |-> Heading90, legLength |-> "3nm"],
     [inboundHeading |-> Heading90, turnDirection |-> "left",
      legLength |-> "3nm"]}

\* arguments of the legacy setHoldParametersAndArmHold
ArmHoldInputs ==
    {[inboundHeading |-> Heading90, turnDirection |-> "left",
      legLength |-> "3nm"]}

\* arguments of setHoldTimer
HoldTimerInputs == {Number(100), String(<<"1", "0", "0">>), Undefined}

\* arguments of the altitude queries, in feet
Altitudes == {-2, 0, 5000, 6000}

InitWaypointUse ==
    /\ LET l == init(NavigationLibrary, AirportComplete).lib
       IN  /\ referencePosition = l.referencePosition
           /\ fixItems = l.fixItems
           /\ airwayCollection = l.airwayCollection
           /\ procedureCollection = l.procedureCollection
    /\ history = History(TRUE, TRUE, {}, NoCall, FALSE, FALSE, FALSE)
    /\ console = <<>>
    /\ wp = NoWaypoint
    /\ wpHistory = NoWaypointHistory
    /\ last = Call("new", Null, FALSE, Undefined)

\* a hold mutator of the instance's class: the instance it leaves
HoldMutation(op, arg, raised, w, armed) ==
    /\ wp' = w
    /\ last' = Call(op, arg, raised, Undefined)
    /\ wpHistory' = [wpHistory EXCEPT !.armed = armed, !.mutated = TRUE,
                                      !.afterReset = FALSE]
    /\ console' = <<>>
    /\ UNCHANGED <<libVars, history>>

WpActivateHold ==
    /\ wp # NoWaypoint /\ wp.variant = "strict"
    /\ HoldMutation("activateHold", Null, FALSE, activateHold(wp), TRUE)

WpDeactivateHold ==
    /\ wp # NoWaypoint /\ wp.variant = "strict"
    /\ HoldMutation("deactivateHold", Null, FALSE, deactivateHold(wp),
                    wpHistory.armed)

WpSetHoldParameters(parameters) ==
    /\ wp # NoWaypoint /\ wp.variant = "strict"
    /\ HoldMutation("setHoldParameters", parameters, FALSE,
                    setHoldParameters(wp, parameters), wpHistory.armed)

WpSetHoldParametersAndActivateHold(parameters) ==
    /\ wp # NoWaypoint /\ wp.variant = "strict"
    /\ HoldMutation("setHoldParametersAndActivateHold", parameters, FALSE,
                    setHoldParametersAndActivateHold(wp, parameters), TRUE)

WpSetHoldParametersAndArmHold(parameters) ==
    /\ wp # NoWaypoint /\ wp.variant = "legacy"
    /\ HoldMutation("setHoldParametersAndArmHold", parameters, FALSE,
                    setHoldParametersAndArmHold(wp, parameters.inboundHeading,
                                                parameters.turnDirection,
                                                parameters.legLength),
                    TRUE)

WpSetHoldTimer(expirationTime) ==
    /\ wp # NoWaypoint /\ wp.variant = "strict"
    /\ LET r == setHoldTimer(wp, expirationTime)
       IN  HoldMutation("setHoldTimer", expirationTime, r.raised, r.wp,
                        wpHistory.armed)

WpResetHoldTimer ==
    /\ wp # NoWaypoint /\ wp.variant = "strict"
    /\ HoldMutation("resetHoldTimer", Null, FALSE, resetHoldTimer(wp),
                    wpHistory.armed)

WpAltitudeQuery(query, altitude) ==
    /\ wp # NoWaypoint
    /\ last' = Call(query, altitude, FALSE,
                    Bool(IF query = "hasMaximumAltitudeBelow"
                         THEN hasMaximumAltitudeBelow(wp, altitude)
                         ELSE hasMinimumAltitudeAbove(wp, altitude)))
    /\ wpHistory' = [wpHistory EXCEPT !.afterReset = FALSE]
    /\ console' = <<>>
    /\ UNCHANGED <<libVars, history, wp>>

NextWaypointUse ==
    \/ \E c \in UseConstructions :
          WpConstruct(c.variant, c.data, c.restrictions)
    \/ \E data \in UseReinitData : WpInit(data)
    \/ WpReset
    \/ WpActivateHold
    \/ WpDeactivateHold
    \/ \E parameters \in HoldParameterInputs : WpSetHoldParameters(parameters)
    \/ \E parameters \in HoldParameterInputs :
          WpSetHoldParametersAndActivateHold(parameters)
    \/ \E parameters \in ArmHoldInputs :
          WpSetHoldParametersAndArmHold(parameters)
    \/ \E expirationTime \in HoldTimerInputs : WpSetHoldTimer(expirationTime)
    \/ WpResetHoldTimer
    \/ \E query \in {"hasMaximumAltitudeBelow", "hasMinimumAltitudeAbove"},
          altitude \in Altitudes : WpAltitudeQuery(query, altitude)

WaypointUseSpec == InitWaypointUse /\ [][NextWaypointUse]_vars

-----------------------------------------------------------------------------
(* Properties of the waypoint model *)

CalculationCalls == {"calculateBearingToWaypoint", "calculateDistanceToWaypoint"}

\* C8: in the strict WaypointModel, calculateBearingToWaypoint(other) and
\* calculateDistanceToWaypoint(other) raise whenever other is no
\* WaypointModel, or this is a vector waypoint, or other is one; a value
\* that is returned was computed from the positions of two non-vector
\* waypoints.
C8_NoVectorInCalculation ==
    (wp # NoWaypoint /\ last.op \in CalculationCalls) =>
        (wp.variant = "strict" =>
            LET other == last.arg
            IN  /\ (\/ other.t # "WaypointModel"
                    \/ wp._isVectorWaypoint
                    \/ other._isVectorWaypoint) => last.raised
                /\ ~last.raised =>
                    /\ ~wp._isVectorWaypoint /\ ~other._isVectorWaypoint
                    /\ last.result.from = wp._positionModel
                    /\ last.result.to = other._positionModel
                    /\ last.result.from # Null /\ last.result.to # Null)

\* a waypoint reinitialised as a vector waypoint still holds the position
\* of the fix it was built from; the bearing to a fix waypoint raises
C8_Witness ==
    /\ wp # NoWaypoint /\ wp.variant = "strict"
    /\ wp._isVectorWaypoint /\ wp._positionModel # Null
    /\ last.op = "calculateBearingToWaypoint" /\ last.raised
    /\ last.arg.t = "WaypointModel" /\ ~last.arg._isVectorWaypoint
    /\ last.arg._positionModel # Null

Contains(string, character) ==
    \E i \in 1..Len(string) : string[i] = character

\* C9: after a construction that returns, positionModel is null if the
\* waypoint is a vector waypoint and the registry's position of its name
\* otherwise; constructing a non-vector waypoint whose stripped name is not
\* in the fix registry raises.
C9_PositionAfterConstruction ==
    last.op = "new WaypointModel" =>
        LET data == last.arg.data
            known == {fixItems[i].name : i \in 1..Len(fixItems)}
        IN  /\ ~last.raised =>
                /\ wp # NoWaypoint
                /\ wp._isVectorWaypoint => wp._positionModel = Null
                /\ ~wp._isVectorWaypoint =>
                    /\ wp._positionModel # Null
                    /\ wp._positionModel.t = "StaticPositionModel"
                    /\ \E i \in 1..Len(fixItems) :
                          /\ fixItems[i].name = wp._name
                          /\ fixItems[i].positionModel = wp._positionModel
            /\ ValidShape(data) =>
                LET token == FixTokenOf(data)
                    vector == /\ Contains(token, "#")
                              /\ ~Contains(token, "^")
                              /\ ~Contains(token, "@")
                    stripped == SelectSeq(token, LAMBDA c : c \notin {"@", "^"})
                IN  (~vector /\ stripped \notin known) => last.raised

\* the registry is loaded and does not know DAG: the construction raised
C9_Witness ==
    /\ last.op = "new WaypointModel" /\ last.raised
    /\ last.arg.data = String(DAG)
    /\ Len(fixItems) > 0
    /\ wp = NoWaypoint

\* whether a restriction sets the minimum or maximum of its kind
Addresses(restriction, kind, side) ==
    /\ restriction.kind = kind
    /\ \/ restriction.suffix = <<>>
       \/ side = "minimum" /\ restriction.suffix = <<"+">>
       \/ side = "maximum" /\ restriction.suffix = <<"-">>

\* the bound a list of restrictions leaves: that of the last restriction
\* that addresses it, in feet or knots, and -1 when none does
ExpectedBound(list, kind, side) ==
    LET addressing == {i \in 1..Len(list) : Addresses(list[i], kind, side)}
    IN  IF addressing = {} THEN -1
        ELSE LET i == CHOOSE k \in addressing : \A j \in addressing : j <= k
             IN  IF kind = "A" THEN list[i].n * 100 ELSE list[i].n

\* C10: a waypoint constructed with a restriction string of well-formed A/S
\* tokens has each bound at the value of the last token that addresses it
\* (+ the minimum only, - the maximum only, no suffix both; altitude the
\* integer times 100, speed the integer) and at -1 when no token does.
C10_RestrictionBounds ==
    (/\ last.op = "new WaypointModel" /\ ~last.raised
     /\ \A i \in 1..Len(last.arg.restrictions) :
            last.arg.restrictions[i] \in WellFormedRestrictions) =>
        LET list == last.arg.restrictions
        IN  /\ wp.altitudeMinimum = ExpectedBound(list, "A", "minimum")
            /\ wp.altitudeMaximum = ExpectedBound(list, "A", "maximum")
            /\ wp.speedMinimum = ExpectedBound(list, "S", "minimum")
            /\ wp.speedMaximum = ExpectedBound(list, "S", "maximum")

\* new WaypointModel(["BAK", "A50-|S210-"])
C10_Witness ==
    /\ last.op = "new WaypointModel" /\ ~last.raised
    /\ last.arg.data =
          Array(<<BAK, <<"A", "5", "0", "-", "|", "S", "2", "1", "0", "-">> >>)
    /\ wp.altitudeMaximum = 5000 /\ wp.altitudeMinimum = -1
    /\ wp.speedMaximum = 210 /\ wp.speedMinimum = -1

\* a restriction token of the string starts with something else than A or S
HasMalformedPrefix(string) ==
    \E i \in 1..Len(string) :
        /\ i = 1 \/ string[i - 1] = "|"
        /\ string[i] \notin {"A", "S", "|"}

InitialisingCalls == {"new WaypointModel", "WaypointModel.init"}

\* the data an initialising call was made with
DataOf(call) ==
    IF call.op = "new WaypointModel" THEN call.arg.data ELSE call.arg

\* C11: new WaypointModel([token, restrictions]) and init([token,
\* restrictions]) raise when a |-separated token of restrictions starts
\* with a character other than A or S, wherever in the list it stands.
C11_MalformedPrefixRaises ==
    last.op \in InitialisingCalls =>
        LET data == DataOf(last)
        IN  (/\ data.t = "array" /\ Len(data.items) = 2
             /\ HasMalformedPrefix(data.items[2])) => last.raised

\* the malformed token stands second, after a well-formed one
C11_Witness ==
    /\ last.op = "new WaypointModel" /\ last.raised
    /\ Len(last.arg.restrictions) = 2
    /\ last.arg.restrictions[1] \in WellFormedRestrictions
    /\ last.arg.restrictions[2] \in MalformedRestrictions
    /\ HasMalformedPrefix(last.arg.data.items[2])

\* C12: right after construction at most one of isFlyOverWaypoint,
\* isHoldWaypoint and isVectorWaypoint is true, and it is the one of the
\* first marker found when the token is checked for ^, then @, then #.
C12_OneMarkerApplies ==
    (last.op = "new WaypointModel" /\ ~last.raised) =>
        LET token == FixTokenOf(last.arg.data)
            flyOver == Contains(token, "^")
            hold == ~flyOver /\ Contains(token, "@")
            vector == ~flyOver /\ ~hold /\ Contains(token, "#")
        IN  /\ wp._isFlyOverWaypoint = flyOver
            /\ wp._isHoldWaypoint = hold
            /\ wp._isVectorWaypoint = vector
            /\ Cardinality({f \in {"flyOver", "hold", "vector"} :
                    \/ f = "flyOver" /\ wp._isFlyOverWaypoint
                    \/ f = "hold" /\ wp._isHoldWaypoint
                    \/ f = "vector" /\ wp._isVectorWaypoint}) <= 1

\* new WaypointModel("@^BA"): a fly-over waypoint and no hold waypoint
C12_Witness ==
    /\ last.op = "new WaypointModel" /\ ~last.raised
    /\ last.arg.data = String(<<"@", "^">> \o BA)
    /\ wp._isFlyOverWaypoint /\ ~wp._isHoldWaypoint /\ ~wp._isVectorWaypoint
    /\ wp._name = BA

\* C13: a waypoint constructed from a raw token is a vector waypoint iff
\* the token contains #.
C13_VectorIffPound ==
    (last.op = "new WaypointModel" /\ ~last.raised) =>
        (wp._isVectorWaypoint <=> Contains(FixTokenOf(last.arg.data), "#"))

\* new WaypointModel(["#270", restrictions]): a vector waypoint
C13_Witness ==
    /\ last.op = "new WaypointModel" /\ ~last.raised
    /\ last.arg.data.t = "array"
    /\ FixTokenOf(last.arg.data) = Vector270
    /\ Len(last.arg.restrictions) > 0
    /\ wp._isVectorWaypoint /\ wp._name = Vector270

\* C16: init(d2) on a waypoint initialised from d1 before leaves every field
\* as that of a waypoint newly constructed from d2, for valid d1 and d2.
C16_InitClearsPreviousState ==
    [][(/\ wp # NoWaypoint
        /\ last.op \in InitialisingCalls /\ ~last.raised
        /\ last'.op = "WaypointModel.init"
        /\ ~WaypointModel(wp.variant, last'.arg, fixItems).raised)
       => /\ ~last'.raised
          /\ wp' = WaypointModel(wp.variant, last'.arg, fixItems).wp]_vars

-----------------------------------------------------------------------------
(* Properties of a waypoint in use *)

HoldFields == {"turnDirection", "inboundHeading", "legLength", "timer"}

ArmingCalls ==
    {"activateHold", "setHoldParametersAndActivateHold",
     "setHoldParametersAndArmHold"}

\* the token makes _initSpecialWaypoint take the hold branch
HoldToken(token) == Contains(token, "@") /\ ~Contains(token, "^")

\* C14 as stated: in every reachable state isHoldWaypoint is true iff the
\* token the waypoint was initialised from contained @ or the hold was set
\* by a call since.
C14_HoldIffTokenOrArmed ==
    wp # NoWaypoint =>
        (wp._isHoldWaypoint <=>
            (Contains(wpHistory.token, "@") \/ wpHistory.armed))

\* C14 amended: isHoldWaypoint is what the most recent call that sets it
\* left: true after an initialisation from a token with @ and no ^ and after
\* an arming call, false after construction from another token, after
\* deactivateHold and after reset(); an init() in place from another token
\* and every other call leave it as it was.
C14_HoldFollowsLastSetter ==
    [][wp' # NoWaypoint =>
        wp'._isHoldWaypoint =
            IF last'.op \in ArmingCalls THEN TRUE
            ELSE IF last'.op \in {"deactivateHold", "WaypointModel.reset"}
            THEN FALSE
            ELSE IF last'.op = "new WaypointModel"
            THEN HoldToken(FixTokenOf(last'.arg.data))
            ELSE IF /\ last'.op = "WaypointModel.init"
                    /\ ValidShape(last'.arg)
                    /\ HoldToken(FixTokenOf(last'.arg))
            THEN TRUE
            ELSE wp._isHoldWaypoint]_vars

\* deactivateHold() on a waypoint initialised from a token with @
C14_Witness ==
    /\ wp # NoWaypoint /\ last.op = "deactivateHold"
    /\ HoldToken(wpHistory.token) /\ ~wpHistory.armed
    /\ ~wp._isHoldWaypoint

\* C15: after any mutations, reset() followed by init(d) leaves the
\* waypoint equal in every field to a waypoint newly constructed from d,
\* and raises exactly when that construction raises.
C15_ResetInitRoundTrip ==
    [][(last.op = "WaypointModel.reset" /\ last'.op = "WaypointModel.init")
       => LET fresh == WaypointModel(wp.variant, last'.arg, fixItems)
          IN  /\ last'.raised = fresh.raised
              /\ ~fresh.raised =>
                    /\ wp' = fresh.wp
                    /\ holdParameters(wp') = holdParameters(fresh.wp)]_vars

\* hold mutators were called, then reset(), then init("@BAK") returned
C15_Witness ==
    /\ wp # NoWaypoint /\ last.op = "WaypointModel.init" /\ ~last.raised
    /\ wpHistory.afterReset /\ wpHistory.mutated
    /\ last.arg = String(<<"@">> \o BAK)
    /\ wp = WaypointModel(wp.variant, last.arg, fixItems).wp

\* C17: setHoldParameters(partial) gives every field named in partial the
\* given value, leaves the other fields of the hold parameters and every
\* other field of the waypoint, isHoldWaypoint among them, as they were.
C17_SetHoldParametersMerges ==
    [][last'.op = "setHoldParameters" =>
        /\ DOMAIN wp'._holdParameters = HoldFields
        /\ \A f \in HoldFields :
              wp'._holdParameters[f] =
                  IF f \in DOMAIN last'.arg THEN last'.arg[f]
                  ELSE wp._holdParameters[f]
        /\ wp'._isHoldWaypoint = wp._isHoldWaypoint
        /\ wp' = [wp EXCEPT !._holdParameters = wp'._holdParameters]]_vars

\* the leg length set by an earlier call stays when only the turn direction
\* is given, and the waypoint is no hold waypoint
C17_Witness ==
    /\ wp # NoWaypoint /\ last.op = "setHoldParameters"
    /\ last.arg = [turnDirection |-> "left"]
    /\ wp._holdParameters.turnDirection = "left"
    /\ wp._holdParameters.legLength = "3nm"
    /\ wp._holdParameters.inboundHeading = Heading90
    /\ ~wp._isHoldWaypoint

\* C18: arming a hold makes isHoldWaypoint true and gives the hold
\* parameters the given values in the same call, on any waypoint;
\* afterwards the holdParameters getter returns the given values.
C18_ArmingSetsParametersAndFlag ==
    (/\ wp # NoWaypoint
     /\ last.op \in {"setHoldParametersAndActivateHold",
                     "setHoldParametersAndArmHold"}) =>
        /\ ~last.raised
        /\ wp._isHoldWaypoint
        /\ holdParameters(wp) # Undefined
        /\ \A f \in DOMAIN last.arg : holdParameters(wp)[f] = last.arg[f]

\* the legacy call on a waypoint constructed from "BAK"
C18_Witness ==
    /\ wp # NoWaypoint /\ last.op = "setHoldParametersAndArmHold"
    /\ ~Contains(wpHistory.token, "@") /\ wpHistory.token # <<>>
    /\ wp._isHoldWaypoint
    /\ holdParameters(wp) =
          [turnDirection |-> "left", inboundHeading |-> Heading90,
           legLength |-> "3nm", timer |-> -1]

\* C19: the holdParameters getter yields a record when isHoldWaypoint is
\* true and no value when it is false; a waypoint constructed from a hold
\* token has hold parameters with turn direction right.
C19_HoldParametersOnlyWhenHold ==
    wp # NoWaypoint =>
        /\ wp._isHoldWaypoint =>
              /\ holdParameters(wp) \notin {Null, Undefined}
              /\ HoldFields \subseteq DOMAIN holdParameters(wp)
        /\ ~wp._isHoldWaypoint => holdParameters(wp) = Undefined
        /\ (/\ last.op = "new WaypointModel"
            /\ HoldToken(FixTokenOf(last.arg.data))) =>
              /\ wp._isHoldWaypoint
              /\ holdParameters(wp).turnDirection = "right"

\* new WaypointModel("@BAK")
C19_Witness ==
    /\ wp # NoWaypoint /\ last.op = "new WaypointModel"
    /\ last.arg.data = String(<<"@">> \o BAK)
    /\ wp._isHoldWaypoint
    /\ holdParameters(wp).turnDirection = "right"

\* C20: hasMinimumAltitudeAbove(x) is true iff altitudeMinimum is not -1 and
\* is greater than x; hasMaximumAltitudeBelow(x) is true iff
\* altitudeMaximum is not -1 and is less than x.
C20_AltitudeQueries ==
    wp # NoWaypoint =>
        /\ last.op = "hasMinimumAltitudeAbove" =>
              last.result = Bool(/\ wp.altitudeMinimum # -1
                                 /\ wp.altitudeMinimum > last.arg)
        /\ last.op = "hasMaximumAltitudeBelow" =>
              last.result = Bool(/\ wp.altitudeMaximum # -1
                                 /\ wp.altitudeMaximum < last.arg)

\* no maximum is set: -1 is below 0, and the answer is false
C20_Witness ==
    /\ wp # NoWaypoint /\ last.op = "hasMaximumAltitudeBelow"
    /\ last.arg = 0 /\ wp.altitudeMaximum = -1 /\ wp.altitudeMinimum = 5000
    /\ last.result = Bool(FALSE)

-----------------------------------------------------------------------------
(* Properties of the vector heading and of the legacy calculations *)

\* the token makes _initSpecialWaypoint take the vector branch
VectorToken(token) ==
    Contains(token, "#") /\ ~Contains(token, "^") /\ ~Contains(token, "@")

\* the integer written after the # of a token
HeadingAfterPound(token) ==
    LET at == CHOOSE i \in 1..Len(token) :
                  token[i] = "#" /\ \A j \in 1..(i - 1) : token[j] # "#"
    IN  DecimalValue(SelectSeq(SubSeq(token, at + 1, Len(token)),
                               LAMBDA c : c \in Digits))

\* C21: getVector() returns no value for a waypoint that is not initialised
\* from a vector token, and for a waypoint initialised from a vector token
\* the integer after its # as degrees, converted to radians.
C21_GetVector ==
    (wp # NoWaypoint /\ last.op = "getVector") =>
        last.result = IF VectorToken(wpHistory.token)
                      THEN degreesToRadians(HeadingAfterPound(wpHistory.token))
                      ELSE Undefined

\* the same for a waypoint that knew one initialisation only since it was
\* constructed or reset: there the statement holds
GetVectorOfSingleInitialisation ==
    (wp # NoWaypoint /\ last.op = "getVector"
        /\ wp = IF wpHistory.token = <<>> THEN Pristine(wp.variant)
                ELSE WaypointModel(wp.variant, String(wpHistory.token),
                                   fixItems).wp) =>
        last.result = IF VectorToken(wpHistory.token)
                      THEN degreesToRadians(HeadingAfterPound(wpHistory.token))
                      ELSE Undefined

\* C22: in the legacy WaypointModel the two calculations do not raise when
\* the operand is no WaypointModel or when either waypoint is a vector
\* waypoint; they return 0 (distance) or no value (bearing), whether or not
\* a position model is there to be read.
C22_LegacyCalculationsAreLenient ==
    (wp # NoWaypoint /\ last.op \in CalculationCalls) =>
        (wp.variant = "legacy" =>
            LET other == last.arg
            IN  (\/ other.t # "WaypointModel"
                 \/ wp._isVectorWaypoint
                 \/ other._isVectorWaypoint) =>
                    /\ ~last.raised
                    /\ last.op = "calculateDistanceToWaypoint"
                          => last.result = Number(0)
                    /\ last.op = "calculateBearingToWaypoint"
                          => last.result = Undefined)

\* a legacy vector waypoint has no position model; its distance to a fix
\* waypoint is 0
C22_Witness ==
    /\ wp # NoWaypoint /\ wp.variant = "legacy"
    /\ wp._isVectorWaypoint /\ wp._positionModel = Null
    /\ last.op = "calculateDistanceToWaypoint" /\ ~last.raised
    /\ last.arg.t = "WaypointModel" /\ ~last.arg._isVectorWaypoint
    /\ last.result = Number(0)

-----------------------------------------------------------------------------
(* Properties of the hold timer *)

\* the waypoints differ in the hold timer at most
SameButTimer(a, b) ==
    /\ \A f \in HoldFields \ {"timer"} :
          a._holdParameters[f] = b._holdParameters[f]
    /\ a._isHoldWaypoint = b._isHoldWaypoint
    /\ [a EXCEPT !._holdParameters = Null] = [b EXCEPT !._holdParameters = Null]

\* C23: setHoldTimer(t) with a number sets the timer to t; with anything
\* else it raises and leaves the timer; resetHoldTimer() sets the timer to
\* the unset value -1; all three leave turnDirection, inboundHeading,
\* legLength, isHoldWaypoint and the rest of the waypoint as they were.
C23_HoldTimer ==
    [][/\ last'.op = "setHoldTimer" =>
            /\ SameButTimer(wp, wp')
            /\ last'.raised = (last'.arg.t # "number")
            /\ wp'._holdParameters.timer =
                  IF last'.arg.t = "number" THEN last'.arg.v
                  ELSE wp._holdParameters.timer
       /\ last'.op = "resetHoldTimer" =>
            /\ SameButTimer(wp, wp')
            /\ ~last'.raised
            /\ wp'._holdParameters.timer = -1]_vars

\* setHoldTimer("100") after setHoldTimer(100): raised, the timer stays
C23_Witness ==
    /\ wp # NoWaypoint /\ last.op = "setHoldTimer" /\ last.raised
    /\ last.arg = String(<<"1", "0", "0">>)
    /\ wp._holdParameters.timer = 100

-----------------------------------------------------------------------------
(* Properties of the library's warning and of its recovery *)

RegistryNames == {fixItems[i].name : i \in 1..Len(fixItems)}

\* C24: an init() call prints the undefined-fix warning at most once, as one
\* message that lists all undefined fix names, and only when the registry
\* and both collections are built: never when it raises.  When it prints,
\* init() returns normally and the library holds what the build stored.
C24_WarningOncePerInit ==
    [][last'.op = "init" =>
        /\ Len(console') <= 1
        /\ last'.raised => console' = <<>>
        /\ ~last'.raised =>
            /\ (console' = <<>>) <=> (FixNamesInUse' \ RegistryNames' = {})
            /\ console' # <<>> =>
                  {console'[1].fixes[i] : i \in 1..Len(console'[1].fixes)}
                      = FixNamesInUse' \ RegistryNames'
            /\ RegistryNames' = RegistryNames \cup EntryKeys(last'.arg.fixes)
            /\ EntryKeys(airwayCollection') =
                  EntryKeys(airwayCollection) \cup EntryKeys(last'.arg.airways)
            /\ EntryKeys(procedureCollection') =
                  EntryKeys(procedureCollection)
                      \cup EntryKeys(last'.arg.sids)
                      \cup EntryKeys(last'.arg.stars)]_vars

\* init(AirportMissingFixes) returned, with one message that names BA (of an
\* airway and a STAR) and DAG (of an airway and a SID), and everything stored
C24_Witness ==
    /\ last.op = "init" /\ ~last.raised /\ last.arg = AirportMissingFixes
    /\ Len(console) = 1
    /\ Len(console[1].fixes) = 2
    /\ EntryKeys(airwayCollection) = {V1, V2}
    /\ EntryKeys(procedureCollection) = {P1, P2}
    /\ RegistryNames = {BAK, CLA}

\* the descriptor defines no airway or procedure id twice
ValidDescriptor(airportJson) ==
    /\ ~HasDuplicate(airportJson.airways, {})
    /\ ~HasDuplicate(airportJson.sids \o airportJson.stars, {})

\* C26: when an init() has raised partway, reset() followed by init() of a
\* valid descriptor returns normally and leaves the library with exactly
\* that descriptor's reference position, fixes, airways and procedures.
C26_RecoveryAfterFailedInit ==
    [][(/\ last.op = "reset" /\ history.afterFailure
        /\ last'.op = "init" /\ ValidDescriptor(last'.arg))
       => /\ ~last'.raised
          /\ LoadedExactly(lib', last'.arg)]_vars

\* init(AirportDuplicateProcedure) raised at the STAR P1 with the fix DAG,
\* the airway V2 and procedures stored; reset() released them, and
\* init(AirportComplete) loaded
C26_Witness ==
    /\ last.op = "init" /\ ~last.raised /\ last.arg = AirportComplete
    /\ history.afterFailure /\ history.released = {V2}
    /\ ~history.failed
    /\ LoadedExactly(lib, AirportComplete)
    /\ EntryKeys(airwayCollection) = {J3}
    /\ EntryKeys(procedureCollection) = {P3}

-----------------------------------------------------------------------------
(* Waypoints built on demand while the library is loaded and released *)

\* what waypoints are built from, with the restrictions the restriction
\* string was written from
OnDemandConstructions ==
    {Construction(variant, String(token), <<>>) :
        variant \in Variants,
        token \in {BAK, <<"@">> \o BAK, <<"^">> \o DAG, Vector270}}
    \cup
    {Construction(variant, Array(<<token, RestrictionString(list)>>), list) :
        variant \in Variants, token \in {BA, Vector270},
        list \in {<<Restriction("A", 50, <<"+">>),
                    Restriction("S", 210, <<"-">>)>>}}

\* new WaypointModel(data) at any time: the instance under observation is
\* the one built last, if the constructor returned
WpConstructOnDemand(variant, data, restrictions) ==
    LET r == WaypointModel(variant, data, fixItems)
    IN  /\ wp' = r.wp
        /\ last' = Call("new WaypointModel",
                        Construction(variant, data, restrictions),
                        r.raised, Undefined)
        /\ wpHistory' = IF r.raised THEN NoWaypointHistory
                        ELSE WaypointHistory(FixTokenOf(data), FALSE, FALSE,
                                             FALSE)
        /\ console' = <<>>
        /\ UNCHANGED <<libVars, history>>

NextLifecycle ==
    \/ \E airportJson \in Airports : NavInit(airportJson)
    \/ NavReset
    \/ \E c \in OnDemandConstructions :
          WpConstructOnDemand(c.variant, c.data, c.restrictions)

LifecycleSpec == Init /\ [][NextLifecycle]_vars

\* C25: while the library is uninitialized (no init() yet, or none since
\* the last reset()) constructing a non-vector waypoint raises; constructing
\* a vector waypoint (# and neither ^ nor @) returns in every library state.
C25_ConstructionFollowsLifecycle ==
    last.op = "new WaypointModel" =>
        LET token == FixTokenOf(last.arg.data)
        IN  /\ (~history.initCalled /\ ~VectorToken(token)) =>
                  /\ last.raised
                  /\ fixItems = <<>>
            /\ VectorToken(token) =>
                  /\ ~last.raised
                  /\ wp._isVectorWaypoint /\ wp._positionModel = Null

\* AirportComplete, which defines BAK, was loaded and released; BAK is
\* asked for before the next init()
C25_Witness ==
    /\ last.op = "new WaypointModel" /\ last.raised
    /\ FixTokenOf(last.arg.data) = BAK
    /\ ~history.initCalled /\ history.released = {J3}
    /\ wp = NoWaypoint

====
